---------------------------- MODULE Spec2Model ----------------------------
(***************************************************************************)
(* A model of the Raspberry Pi camera / robot scripts of the repository.   *)
(* Every file is a standalone script with its own entry point, so a run of *)
(* the model is a run of ONE script, chosen in Init by the variable        *)
(* `script`:                                                               *)
(*   "verdict"  camera-diagnostics.py, verdict_from_stats (pure function)  *)
(*   "bgr"      camera-diagnostics.py, to_bgr (pure function)              *)
(*   "robot"    treasure_hunt.py, key_scan_thread and main                 *)
(*   "diag"     camera-diagnostics.py, main and the two capture functions  *)
(*   "web"      display-cam/app.py, module start-up and the HTTP routes    *)
(*   "inter"    rami-first.py, the interactive diagnostic loops            *)
(* Python's None is the string "None" of the model; Python strings are     *)
(* TLA+ strings, which TLC treats as sequences of one-character strings.  *)
(***************************************************************************)
EXTENDS Integers, Sequences, FiniteSets, TLC

VARIABLES
    script,     \* which script this run executes
    \* ---- verdict_from_stats ----
    means,      \* s["means_rgb"]: <<r, g, b>>
    verdict,    \* the string returned, "None" before the call
    \* ---- to_bgr ----
    img0,       \* the array the first call was given
    img,        \* the array currently held (result of the last call)
    ncalls,     \* how many times to_bgr was applied to it
    \* ---- treasure_hunt.py ----
    key,        \* the global `key`
    lock,       \* who holds `lock`: "free", "thread" or "main"
    tpc,        \* key_scan_thread: where it is
    key_temp,   \* key_scan_thread: its local key_temp
    mpc,        \* main: where it is
    action,     \* main: its local `action`
    color,      \* the global `color`
    cam_open,   \* Vilib camera started and not closed
    mseen,      \* main: the value of `key` its latest locked read found,
                \* "unread" before the read of the current iteration
    done,       \* main: the actions given to crawler.do_action in the
                \* current iteration, in order
    \* ---- camera-diagnostics.py, main ----
    dpc,        \* main: where it is
    cpc,        \* the running capture_picamera2 / capture_opencv call: where
                \* it is, "idle" when none runs
    use_picam2, \* main: use_picam2
    sweep,      \* args.sweep
    outdir,     \* main: outdir
    cam,        \* the camera handles opened so far, in order of opening, each
                \* "open", "started", "stopped", "closed" or "released"
    frame,      \* the capture call's local frame / bgr
    rgb,        \* main: rgb (auto capture) or rgb_m (sweep capture)
    gi,         \* main: position of g in gains_list, 1-based
    files,      \* summary["files"]
    sweep_results, \* main: sweep_results
    manual_sweep,  \* << >> while summary has no "manual_sweep" key, else
                   \* <<summary["manual_sweep"]>>
    written,    \* paths written by cv2.imwrite or open(..., "w")
    dout,       \* what was printed with [error] or [warn]
    exit_status, \* << >> while the process runs, <<status>> once it has exited
    \* ---- rami-first.py ----
    ipc,        \* where the script is
    icam,       \* its camera handle: "none", "started", "stopped", "released"
    iframe,     \* run_picamera2: frame / run_opencv: frame_bgr (None when
                \* the capture gave nothing)
    compare,    \* the local compare
    saved_count,  \* the local saved_count
    manual_mode,  \* run_picamera2: manual_mode
    gains_idx,  \* run_picamera2: gains_idx, 0-based
    iexit,      \* << >> while the process runs, <<status>> once it has exited
    \* ---- display-cam/app.py ----
    wpc,        \* where the module's start-up is
    routes,     \* the URL rules registered with @app.route
    static_exists, \* os.path.exists(STATIC_IMAGE_PATH)
    wreply,     \* <<path, status>> of the latest request served, << >> before
    nframes,    \* how many frames picam2.capture_array() has delivered; the
                \* n-th frame delivered is frame n
    gpc,        \* mjpeg_generator: "none" before it exists, then "capture",
                \* "encode", "yield" (suspended at the yield) or "closed"
    gframe,     \* mjpeg_generator: its local frame, 0 before the first capture
    emitted,    \* the parts mjpeg_generator has yielded, in order
    client      \* the /stream client: "none", "connected" or "gone"

vVerdict == <<means, verdict>>
vBgr     == <<img0, img, ncalls>>
vRobot   == <<key, lock, tpc, key_temp, mpc, action, color, cam_open, mseen, done>>
vDiag    == <<dpc, cpc, use_picam2, sweep, outdir, cam, frame, rgb, gi, files,
              sweep_results, manual_sweep, written, dout, exit_status>>
vInter   == <<ipc, icam, iframe, compare, saved_count, manual_mode, gains_idx, iexit>>
vGen     == <<nframes, gpc, gframe, emitted, client>>
vWeb     == <<wpc, routes, static_exists, wreply, vGen>>
vars     == <<script, vVerdict, vBgr, vRobot, vDiag, vInter, vWeb>>

None == "None"

Max(a, b) == IF a >= b THEN a ELSE b

-----------------------------------------------------------------------------
(* Bounds of the model *)

\* channel means range over 0..MaxMean
MaxMean == 6
\* images have h rows and w columns with h * w <= MaxPixels, channel values
\* 0..MaxVal
MaxPixels == 2
MaxVal == 1
\* to_bgr is applied at most MaxCalls times to one array
MaxCalls == 2
\* the interactive diagnostic saves at most MaxSaved frames
MaxSaved == 2
\* the web viewer's camera delivers at most MaxFrames frames
MaxFrames == 3

-----------------------------------------------------------------------------
(* camera-diagnostics.py: verdict_from_stats *)

BlueMsg     == "Blue much higher than R/G -> AWB or gains issue likely."
RedMsg      == "Red much higher than G/B -> Scene warm or gains skewed."
BalancedMsg == "Channel means look balanced for typical indoor light."

\* x > 1.4 * y, on integers: 10 * x > 14 * y
Exceeds14(x, y) == 10 * x > 14 * y

\* " ".join(msgs)
RECURSIVE JoinSpace(_)
JoinSpace(msgs) ==
    IF Len(msgs) = 0 THEN ""
    ELSE IF Len(msgs) = 1 THEN msgs[1]
    ELSE msgs[1] \o " " \o JoinSpace(Tail(msgs))

\* the condition of the second `if`, with max(g, b) cut down to g
RedCond_OnlyGreen(r, g, b) == Exceeds14(r, g)
\* the condition of the first `if`, with >= in place of >
BlueCond_Ge(r, g, b) == 10 * b >= 14 * Max(r, g)

BlueCond(r, g, b) == Exceeds14(b, Max(r, g))
RedCond(r, g, b)  == Exceeds14(r, Max(g, b))

verdict_from_stats(s) ==
    LET r == s[1]
        g == s[2]
        b == s[3]
        m1 == IF BlueCond(r, g, b) THEN <<BlueMsg>> ELSE << >>
        m2 == IF RedCond(r, g, b) THEN Append(m1, RedMsg) ELSE m1
        m3 == IF Len(m2) = 0 THEN Append(m2, BalancedMsg) ELSE m2
    IN  JoinSpace(m3)

VerdictInit ==
    /\ means \in (0..MaxMean) \X (0..MaxMean) \X (0..MaxMean)
    /\ verdict = None

VerdictIdle == means = <<0, 0, 0>> /\ verdict = None

\* the call v = verdict_from_stats(s)
CallVerdict ==
    /\ script = "verdict"
    /\ verdict = None
    /\ verdict' = verdict_from_stats(means)
    /\ UNCHANGED <<script, means, vBgr, vRobot, vDiag, vInter, vWeb>>

-----------------------------------------------------------------------------
(* camera-diagnostics.py: to_bgr *)

Pixels == [1..3 -> 0..MaxVal]
Shapes == { hw \in (1..MaxPixels) \X (1..MaxPixels) : hw[1] * hw[2] <= MaxPixels }
Images == UNION { [1..hw[1] -> [1..hw[2] -> Pixels]] : hw \in Shapes }

\* x[::-1] for a sequence x
Reverse(x) == [i \in 1..Len(x) |-> x[Len(x) + 1 - i]]

\* the last axis rotated instead of reversed
to_bgr_Rotate(img_rgb) ==
    [i \in DOMAIN img_rgb |->
        [j \in DOMAIN img_rgb[i] |->
            [c \in 1..3 |-> img_rgb[i][j][(c % 3) + 1]]]]

\* img_rgb[..., ::-1]: the last axis reversed, the others kept
to_bgr(img_rgb) ==
    [i \in DOMAIN img_rgb |->
        [j \in DOMAIN img_rgb[i] |-> Reverse(img_rgb[i][j])]]

BgrInit ==
    /\ img0 \in Images
    /\ img = img0
    /\ ncalls = 0

BgrIdle == img0 = << >> /\ img = << >> /\ ncalls = 0

CallToBgr ==
    /\ script = "bgr"
    /\ ncalls < MaxCalls
    /\ img' = to_bgr(img)
    /\ ncalls' = ncalls + 1
    /\ UNCHANGED <<script, img0, vVerdict, vRobot, vDiag, vInter, vWeb>>

-----------------------------------------------------------------------------
(* treasure_hunt.py: key_scan_thread and main *)

\* readchar.key.SPACE is ' '; readchar.key.CTRL_C is '\x03', one control
\* character, written "^C" here
SPACE  == " "
CTRL_C == "^C"

\* what readchar.readkey() can return in the model
Keys == {"w", "s", "a", "d", "W", "x", SPACE, CTRL_C}

color_list == {"red", "orange", "yellow", "green", "blue", "purple"}

key_dict == [k \in {"w", "s", "a", "d"} |->
                CASE k = "w" -> "forward"
                  [] k = "s" -> "backward"
                  [] k = "a" -> "turn_left"
                  [] k = "d" -> "turn_right"]

\* str.lower() of one character
LowerChar(c) ==
    CASE c = "W" -> "w"
      [] c = "S" -> "s"
      [] c = "A" -> "a"
      [] c = "D" -> "d"
      [] c = "X" -> "x"
      [] OTHER -> c

\* str.lower()
RECURSIVE Lower(_)
Lower(s) ==
    IF Len(s) = 0 THEN ""
    ELSE IF s = CTRL_C THEN s
    ELSE LowerChar(SubSeq(s, 1, 1)) \o Lower(SubSeq(s, 2, Len(s)))

\* k in s, for strings: k is a substring of s
InStr(k, s) ==
    \E i \in 0..(Len(s) - Len(k)) : SubSeq(s, i + 1, i + Len(k)) = k

RobotInit ==
    /\ key = None
    /\ lock = "free"
    /\ tpc = "unstarted"
    /\ key_temp = None
    /\ mpc = "start"
    /\ action = None
    /\ color = "red"
    /\ cam_open = FALSE
    /\ mseen = "unread"
    /\ done = << >>

RobotIdle == RobotInit

\* ---- key_scan_thread ----

\* key_temp = readchar.readkey()
ThreadReadKey ==
    /\ script = "robot"
    /\ tpc = "readkey"
    /\ \E k \in Keys : key_temp' = k
    /\ tpc' = "acquire"
    /\ UNCHANGED <<script, vVerdict, vBgr, vDiag, vInter, vWeb, key, lock, mpc, action, color, cam_open, mseen, done>>

\* `with lock:` entered without taking the lock
ThreadAcquire_NoLock ==
    /\ script = "robot"
    /\ tpc = "acquire"
    /\ tpc' = "write"
    /\ UNCHANGED <<script, vVerdict, vBgr, vDiag, vInter, vWeb, key, lock, key_temp, mpc, action, color, cam_open, mseen, done>>

\* `with lock:` entered
ThreadAcquire ==
    /\ script = "robot"
    /\ tpc = "acquire"
    /\ lock = "free"
    /\ lock' = "thread"
    /\ tpc' = "write"
    /\ UNCHANGED <<script, vVerdict, vBgr, vDiag, vInter, vWeb, key, key_temp, mpc, action, color, cam_open, mseen, done>>

\* key = key_temp.lower()
ThreadWrite ==
    /\ script = "robot"
    /\ tpc = "write"
    /\ key' = Lower(key_temp)
    /\ tpc' = "check"
    /\ UNCHANGED <<script, vVerdict, vBgr, vDiag, vInter, vWeb, lock, key_temp, mpc, action, color, cam_open, mseen, done>>

\* if key == SPACE: key = 'space' / elif key == CTRL_C: key = 'quit'; break
ThreadCheck ==
    /\ script = "robot"
    /\ tpc = "check"
    /\ IF key = SPACE THEN key' = "space" /\ tpc' = "release"
       ELSE IF key = CTRL_C THEN key' = "quit" /\ tpc' = "release_break"
       ELSE key' = key /\ tpc' = "release"
    /\ UNCHANGED <<script, vVerdict, vBgr, vDiag, vInter, vWeb, lock, key_temp, mpc, action, color, cam_open, mseen, done>>

\* the end of the `with lock:` block with the `break` left out: the loop goes on
ThreadRelease_NoBreak ==
    /\ script = "robot"
    /\ tpc \in {"release", "release_break"}
    /\ lock' = IF lock = "thread" THEN "free" ELSE lock
    /\ tpc' = "sleep"
    /\ UNCHANGED <<script, vVerdict, vBgr, vDiag, vInter, vWeb, key, key_temp, mpc, action, color, cam_open, mseen, done>>

\* the end of the `with lock:` block; after a break the loop is left
ThreadRelease ==
    /\ script = "robot"
    /\ tpc \in {"release", "release_break"}
    /\ lock' = IF lock = "thread" THEN "free" ELSE lock
    /\ tpc' = IF tpc = "release_break" THEN "ending" ELSE "sleep"
    /\ UNCHANGED <<script, vVerdict, vBgr, vDiag, vInter, vWeb, key, key_temp, mpc, action, color, cam_open, mseen, done>>

\* key_scan_thread returns after the break: the thread has ended
ThreadEnd ==
    /\ script = "robot"
    /\ tpc = "ending"
    /\ tpc' = "done"
    /\ UNCHANGED <<script, vVerdict, vBgr, vDiag, vInter, vWeb, key, lock, key_temp, mpc, action, color, cam_open, mseen, done>>

\* sleep(0.01), then the next turn of `while True`
ThreadSleep ==
    /\ script = "robot"
    /\ tpc = "sleep"
    /\ tpc' = "readkey"
    /\ UNCHANGED <<script, vVerdict, vBgr, vDiag, vInter, vWeb, key, lock, key_temp, mpc, action, color, cam_open, mseen, done>>

\* ---- main ----

\* Vilib.camera_start ... _key_t.start()
MainStart ==
    /\ script = "robot"
    /\ mpc = "start"
    /\ cam_open' = TRUE
    /\ tpc' = "readkey"
    /\ mpc' = "game"
    /\ UNCHANGED <<script, vVerdict, vBgr, vDiag, vInter, vWeb, key, lock, key_temp, action, color, mseen, done>>

\* tts.say("game start"); renew_color_detect()
MainGameStart ==
    /\ script = "robot"
    /\ mpc = "game"
    /\ \E c \in color_list : color' = c
    /\ mpc' = "detect"
    /\ UNCHANGED <<script, vVerdict, vBgr, vDiag, vInter, vWeb, key, lock, tpc, key_temp, action, cam_open, mseen, done>>

\* top of `while True`: the colour-found test, renew_color_detect() when the
\* target is in view
MainDetect ==
    /\ script = "robot"
    /\ mpc = "detect"
    /\ \E found \in BOOLEAN :
          IF found THEN \E c \in color_list : color' = c
          ELSE color' = color
    /\ mseen' = "unread"
    /\ done' = << >>
    /\ mpc' = "acquire"
    /\ UNCHANGED <<script, vVerdict, vBgr, vDiag, vInter, vWeb, key, lock, tpc, key_temp, action, cam_open>>

\* `with lock:` entered
MainAcquire ==
    /\ script = "robot"
    /\ mpc = "acquire"
    /\ lock = "free"
    /\ lock' = "main"
    /\ mpc' = "dispatch"
    /\ UNCHANGED <<script, vVerdict, vBgr, vDiag, vInter, vWeb, key, tpc, key_temp, action, color, cam_open, mseen, done>>

\* `key = None` of the 'space' branch left out
KeyAfterSpace_Kept(k) == k
\* `action = None` after do_action left out
ActionAfterDo_Kept(a) == a

\* line 85: key = None
KeyAfterSpace(k) == None
\* line 94: action = None
ActionAfterDo(a) == None

\* the if / elif / elif under the lock
MainDispatch ==
    /\ script = "robot"
    /\ mpc = "dispatch"
    /\ mseen' = key
    /\ IF key # None /\ InStr(key, "wsad")
       THEN /\ action' = key_dict[key]
            /\ key' = None
            /\ mpc' = "release"
       ELSE IF key = "space"
       THEN /\ key' = KeyAfterSpace(key)
            /\ mpc' = "release"
            /\ UNCHANGED action
       ELSE IF key = "quit"
       THEN /\ mpc' = "join"
            /\ UNCHANGED <<key, action>>
       ELSE /\ mpc' = "release"
            /\ UNCHANGED <<key, action>>
    /\ UNCHANGED <<script, vVerdict, vBgr, vDiag, vInter, vWeb, lock, tpc, key_temp, color, cam_open, done>>

\* the end of the `with lock:` block
MainRelease ==
    /\ script = "robot"
    /\ mpc = "release"
    /\ lock' = IF lock = "main" THEN "free" ELSE lock
    /\ mpc' = "act"
    /\ UNCHANGED <<script, vVerdict, vBgr, vDiag, vInter, vWeb, key, tpc, key_temp, action, color, cam_open, mseen, done>>

\* if action != None: crawler.do_action(action, 1, speed); action = None
MainAct ==
    /\ script = "robot"
    /\ mpc = "act"
    /\ IF action # None
       THEN /\ done' = Append(done, action)
            /\ action' = ActionAfterDo(action)
       ELSE UNCHANGED <<done, action>>
    /\ mpc' = "sleep"
    /\ UNCHANGED <<script, vVerdict, vBgr, vDiag, vInter, vWeb, key, lock, tpc, key_temp, color, cam_open, mseen>>

\* sleep(0.05), then the next turn of `while True`
MainSleep ==
    /\ script = "robot"
    /\ mpc = "sleep"
    /\ mpc' = "detect"
    /\ UNCHANGED <<script, vVerdict, vBgr, vDiag, vInter, vWeb, key, lock, tpc, key_temp, action, color, cam_open, mseen, done>>

\* _key_t.join(): returns once the thread has ended
MainJoin ==
    /\ script = "robot"
    /\ mpc = "join"
    /\ tpc = "done"
    /\ mpc' = "close"
    /\ UNCHANGED <<script, vVerdict, vBgr, vDiag, vInter, vWeb, key, lock, tpc, key_temp, action, color, cam_open, mseen, done>>

\* Vilib.camera_close(); print; break, which leaves the `with lock:` block
MainQuit ==
    /\ script = "robot"
    /\ mpc = "close"
    /\ cam_open' = FALSE
    /\ lock' = IF lock = "main" THEN "free" ELSE lock
    /\ mpc' = "exited"
    /\ UNCHANGED <<script, vVerdict, vBgr, vDiag, vInter, vWeb, key, tpc, key_temp, action, color, mseen, done>>

RobotNext ==
    \/ ThreadReadKey \/ ThreadAcquire \/ ThreadWrite \/ ThreadCheck
    \/ ThreadRelease \/ ThreadEnd \/ ThreadSleep
    \/ MainStart \/ MainGameStart \/ MainDetect \/ MainAcquire \/ MainDispatch
    \/ MainRelease \/ MainAct \/ MainSleep \/ MainJoin \/ MainQuit

-----------------------------------------------------------------------------
(* camera-diagnostics.py: main, capture_picamera2, capture_opencv *)

\* now_stamp() values of the model
Stamps == {"20250101_120000"}

\* os.path.join(a, b)
PathJoin(a, b) == a \o "/" \o b

\* os.path.basename(p): what follows the last "/"
RECURSIVE BaseName(_)
BaseName(p) ==
    IF \E i \in 1..Len(p) : SubSeq(p, i, i) = "/"
    THEN LET i == CHOOSE j \in 1..Len(p) : SubSeq(p, j, j) = "/"
         IN  BaseName(SubSeq(p, i + 1, Len(p)))
    ELSE p

\* str.replace(old, new) for one-character old
RECURSIVE Replace(_, _, _)
Replace(str, old, new) ==
    IF Len(str) = 0 THEN ""
    ELSE (IF SubSeq(str, 1, 1) = old THEN new ELSE SubSeq(str, 1, 1))
            \o Replace(SubSeq(str, 2, Len(str)), old, new)

\* str.endswith(suffix)
EndsWith(str, suffix) ==
    /\ Len(str) >= Len(suffix)
    /\ SubSeq(str, Len(str) - Len(suffix) + 1, Len(str)) = suffix

\* one decimal digit as text
Digit(d) == SubSeq("0123456789", d + 1, d + 1)

\* f"{x:.1f}" of a gain given in tenths (15 is 1.5)
Fmt1f(t) == Digit(t \div 10) \o "." \o Digit(t % 10)

\* gains_list, each gain in tenths
gains_list == << <<10, 10>>, <<15, 10>>, <<20, 12>>, <<10, 15>>, <<12, 20>> >>

\* f"manual_g{g[0]:.1f}_{g[1]:.1f}.png".replace(".", "p")
SweepName(g) ==
    Replace("manual_g" \o Fmt1f(g[1]) \o "_" \o Fmt1f(g[2]) \o ".png", ".", "p")

Frame == "frame"

\* the handles that are neither closed nor released
OpenHandles == {h \in DOMAIN cam : cam[h] \in {"open", "started", "stopped"}}

DiagInit ==
    /\ dpc = "auto_call"
    /\ cpc = "idle"
    /\ use_picam2 \in BOOLEAN
    /\ sweep \in BOOLEAN
    /\ outdir \in {PathJoin("diag_out", st) : st \in Stamps}
    /\ cam = << >>
    /\ frame = None
    /\ rgb = None
    /\ gi = 1
    /\ files = << >>
    /\ sweep_results = << >>
    /\ manual_sweep = << >>
    /\ written = {}
    /\ dout = {}
    /\ exit_status = << >>

DiagIdle ==
    /\ dpc = "none"
    /\ cpc = "idle"
    /\ use_picam2 = FALSE
    /\ sweep = FALSE
    /\ outdir = ""
    /\ cam = << >>
    /\ frame = None
    /\ rgb = None
    /\ gi = 1
    /\ files = << >>
    /\ sweep_results = << >>
    /\ manual_sweep = << >>
    /\ written = {}
    /\ dout = {}
    /\ exit_status = << >>

\* main calls capture_picamera2(...) or capture_opencv(...)
DiagCallCapture ==
    /\ script = "diag"
    /\ dpc \in {"auto_call", "sweep_call"}
    /\ cpc = "idle"
    /\ cpc' = "open"
    /\ UNCHANGED <<script, vVerdict, vBgr, vRobot, vInter, vWeb, dpc, use_picam2, sweep, outdir, cam,
                   frame, rgb, gi, files, sweep_results, manual_sweep, written, dout,
                   exit_status>>

\* picam2 = Picamera2(); configure; set_controls  /  cap = cv2.VideoCapture(0).
\* The code does not say what Picamera2() does while an earlier handle is not
\* closed: the new handle is opened, or the constructor raises and the
\* uncaught exception ends the process.
CapOpen ==
    /\ script = "diag"
    /\ cpc = "open"
    /\ \/ /\ cam' = Append(cam, "open")
          /\ cpc' = IF use_picam2 THEN "start" ELSE "grab"
          /\ UNCHANGED <<dpc, exit_status>>
       \/ /\ use_picam2
          /\ OpenHandles # {}
          /\ cpc' = "idle"
          /\ dpc' = "exited"
          /\ exit_status' = <<1>>
          /\ UNCHANGED cam
    /\ UNCHANGED <<script, vVerdict, vBgr, vRobot, vInter, vWeb, use_picam2, sweep, outdir, frame, rgb,
                   gi, files, sweep_results, manual_sweep, written, dout>>

\* picam2.start(); time.sleep(0.5)
CapStart ==
    /\ script = "diag"
    /\ cpc = "start"
    /\ cam' = [cam EXCEPT ![Len(cam)] = "started"]
    /\ cpc' = "grab"
    /\ UNCHANGED <<script, vVerdict, vBgr, vRobot, vInter, vWeb, dpc, use_picam2, sweep, outdir, frame,
                   rgb, gi, files, sweep_results, manual_sweep, written, dout,
                   exit_status>>

\* frame = picam2.capture_array()  /  ok, bgr = cap.read()
CapGrab ==
    /\ script = "diag"
    /\ cpc = "grab"
    /\ \E f \in {None, Frame} : frame' = f
    /\ cpc' = "stop"
    /\ UNCHANGED <<script, vVerdict, vBgr, vRobot, vInter, vWeb, dpc, use_picam2, sweep, outdir, cam,
                   rgb, gi, files, sweep_results, manual_sweep, written, dout,
                   exit_status>>

\* picam2.stop(): the camera stops streaming, the handle is not closed
AfterStop == "stopped"

\* picam2.stop()  /  cap.release()
CapStop ==
    /\ script = "diag"
    /\ cpc = "stop"
    /\ cam' = [cam EXCEPT ![Len(cam)] = IF use_picam2 THEN AfterStop ELSE "released"]
    /\ cpc' = "ret"
    /\ UNCHANGED <<script, vVerdict, vBgr, vRobot, vInter, vWeb, dpc, use_picam2, sweep, outdir, frame,
                   rgb, gi, files, sweep_results, manual_sweep, written, dout,
                   exit_status>>

\* return None / return frame (flipped as asked): back in main
CapReturn ==
    /\ script = "diag"
    /\ cpc = "ret"
    /\ rgb' = frame
    /\ frame' = None
    /\ cpc' = "idle"
    /\ dpc' = IF dpc = "auto_call" THEN "auto_check" ELSE "sweep_check"
    /\ UNCHANGED <<script, vVerdict, vBgr, vRobot, vInter, vWeb, use_picam2, sweep, outdir, cam, gi,
                   files, sweep_results, manual_sweep, written, dout, exit_status>>

\* A Picamera2 object the code no longer refers to may be finalised by the
\* Python runtime at any later time, or never; finalising closes the handle.
Collect ==
    /\ script = "diag"
    /\ exit_status = << >>
    /\ \E h \in DOMAIN cam :
          /\ cam[h] = "stopped"
          /\ (cpc = "idle" \/ h < Len(cam))
          /\ cam' = [cam EXCEPT ![h] = "closed"]
    /\ UNCHANGED <<script, vVerdict, vBgr, vRobot, vInter, vWeb, dpc, cpc, use_picam2, sweep, outdir,
                   frame, rgb, gi, files, sweep_results, manual_sweep, written, dout,
                   exit_status>>

\* if rgb is None: print("[error] ..."); sys.exit(1)
DiagAutoFailed ==
    /\ script = "diag"
    /\ dpc = "auto_check"
    /\ rgb = None
    /\ dout' = dout \cup {<<"error">>}
    /\ exit_status' = <<1>>
    /\ dpc' = "exited"
    /\ UNCHANGED <<script, vVerdict, vBgr, vRobot, vInter, vWeb, cpc, use_picam2, sweep, outdir, cam,
                   frame, rgb, gi, files, sweep_results, manual_sweep, written>>

\* lines 182-213: save auto_bgr.png, start the summary, enter the sweep or not
DiagAutoSaved ==
    /\ script = "diag"
    /\ dpc = "auto_check"
    /\ rgb # None
    /\ LET auto_png == PathJoin(outdir, "auto_bgr.png")
       IN  /\ written' = written \cup {auto_png}
           /\ files' = <<BaseName(auto_png)>>
    /\ dpc' = IF sweep /\ use_picam2 THEN "sweep_call" ELSE "summary"
    /\ UNCHANGED <<script, vVerdict, vBgr, vRobot, vInter, vWeb, cpc, use_picam2, sweep, outdir, cam,
                   frame, rgb, gi, sweep_results, manual_sweep, dout, exit_status>>

\* the sweep capture failure treated like the auto capture failure
DiagSweepFailed_Exit ==
    /\ script = "diag"
    /\ dpc = "sweep_check"
    /\ rgb = None
    /\ dout' = dout \cup {<<"error">>}
    /\ exit_status' = <<1>>
    /\ dpc' = "exited"
    /\ UNCHANGED <<script, vVerdict, vBgr, vRobot, vInter, vWeb, cpc, use_picam2, sweep, outdir, cam,
                   frame, rgb, gi, files, sweep_results, manual_sweep, written>>

\* if rgb_m is None: print("[warn] ...", g); continue
\* (after the last g: summary["manual_sweep"] = sweep_results)
DiagSweepFailed ==
    /\ script = "diag"
    /\ dpc = "sweep_check"
    /\ rgb = None
    /\ dout' = dout \cup {<<"warn", gains_list[gi]>>}
    /\ IF gi < Len(gains_list)
       THEN gi' = gi + 1 /\ dpc' = "sweep_call" /\ UNCHANGED manual_sweep
       ELSE manual_sweep' = <<sweep_results>> /\ dpc' = "summary" /\ UNCHANGED gi
    /\ UNCHANGED <<script, vVerdict, vBgr, vRobot, vInter, vWeb, cpc, use_picam2, sweep, outdir, cam,
                   frame, rgb, files, sweep_results, written, exit_status>>

\* lines 222-231: name, save and record one sweep capture
\* (after the last g: summary["manual_sweep"] = sweep_results)
DiagSweepSaved ==
    /\ script = "diag"
    /\ dpc = "sweep_check"
    /\ rgb # None
    /\ LET g == gains_list[gi]
           fname == SweepName(g)
           fpath == PathJoin(outdir, fname)
           res == Append(sweep_results, [gains |-> g, file |-> fname])
       IN  /\ written' = written \cup {fpath}
           /\ sweep_results' = res
           /\ files' = Append(files, fname)
           /\ IF gi < Len(gains_list)
              THEN gi' = gi + 1 /\ dpc' = "sweep_call" /\ UNCHANGED manual_sweep
              ELSE manual_sweep' = <<res>> /\ dpc' = "summary" /\ UNCHANGED gi
    /\ UNCHANGED <<script, vVerdict, vBgr, vRobot, vInter, vWeb, cpc, use_picam2, sweep, outdir, cam,
                   frame, rgb, dout, exit_status>>

\* lines 236-259: summary.json and summary.txt, then main returns
DiagSummary ==
    /\ script = "diag"
    /\ dpc = "summary"
    /\ written' = written \cup {PathJoin(outdir, "summary.json"),
                                PathJoin(outdir, "summary.txt")}
    /\ exit_status' = <<0>>
    /\ dpc' = "exited"
    /\ UNCHANGED <<script, vVerdict, vBgr, vRobot, vInter, vWeb, cpc, use_picam2, sweep, outdir, cam,
                   frame, rgb, gi, files, sweep_results, manual_sweep, dout>>

DiagNext ==
    \/ DiagCallCapture \/ CapOpen \/ CapStart \/ CapGrab \/ CapStop \/ CapReturn
    \/ Collect
    \/ DiagAutoFailed \/ DiagAutoSaved \/ DiagSweepFailed \/ DiagSweepSaved
    \/ DiagSummary

-----------------------------------------------------------------------------
(* rami-first.py: __main__, run_picamera2, run_opencv *)

\* what cv2.waitKey(1) & 0xFF can give: the keys the loops test and any other
WaitKeys == {"q", "c", "s", "a", "g", "other"}

\* len(gains_list) of run_picamera2
NumGainPresets == 6

InterInit ==
    /\ ipc = "main"
    /\ icam = "none"
    /\ iframe = None
    /\ compare = TRUE
    /\ saved_count = 0
    /\ manual_mode = FALSE
    /\ gains_idx = 0
    /\ iexit = << >>

InterIdle ==
    /\ ipc = "none"
    /\ icam = "none"
    /\ iframe = None
    /\ compare = TRUE
    /\ saved_count = 0
    /\ manual_mode = FALSE
    /\ gains_idx = 0
    /\ iexit = << >>

\* lines 166-172 and 25-55: the import and the camera set-up of run_picamera2
\* succeed, or one of them raises and run_opencv() opens /dev/video0, which
\* is open or not (print and sys.exit(1))
InterMain ==
    /\ script = "inter"
    /\ ipc = "main"
    /\ \/ icam' = "started" /\ ipc' = "p_capture" /\ UNCHANGED iexit
       \/ icam' = "started" /\ ipc' = "o_capture" /\ UNCHANGED iexit
       \/ icam' = "none" /\ ipc' = "exited" /\ iexit' = <<1>>
    /\ UNCHANGED <<script, vVerdict, vBgr, vRobot, vDiag, vWeb, iframe, compare,
                   saved_count, manual_mode, gains_idx>>

\* frame = picam2.capture_array()  /  ok, frame_bgr = cap.read()
InterCapture ==
    /\ script = "inter"
    /\ ipc \in {"p_capture", "o_capture"}
    /\ \E f \in {None, Frame} : iframe' = f
    /\ ipc' = IF ipc = "p_capture" THEN "p_check" ELSE "o_check"
    /\ UNCHANGED <<script, vVerdict, vBgr, vRobot, vDiag, vWeb, icam, compare,
                   saved_count, manual_mode, gains_idx, iexit>>

\* if frame is None: continue  /  if not ok: continue
InterSkip ==
    /\ script = "inter"
    /\ ipc \in {"p_check", "o_check"}
    /\ iframe = None
    /\ ipc' = IF ipc = "p_check" THEN "p_capture" ELSE "o_capture"
    /\ UNCHANGED <<script, vVerdict, vBgr, vRobot, vDiag, vWeb, icam, iframe, compare,
                   saved_count, manual_mode, gains_idx, iexit>>

\* run_picamera2, lines 62-122: show the frame, then act on the key
InterPicamKey ==
    /\ script = "inter"
    /\ ipc = "p_check"
    /\ iframe # None
    /\ \E k \in WaitKeys :
          /\ k = "s" => saved_count < MaxSaved
          /\ ipc' = IF k = "q" THEN "p_quit" ELSE "p_capture"
          /\ compare' = IF k = "c" THEN ~compare ELSE compare
          /\ saved_count' = IF k = "s" THEN saved_count + 1 ELSE saved_count
          /\ manual_mode' = IF k = "a" THEN ~manual_mode ELSE manual_mode
          /\ gains_idx' = IF k = "g" THEN (gains_idx + 1) % NumGainPresets ELSE gains_idx
    /\ UNCHANGED <<script, vVerdict, vBgr, vRobot, vDiag, vWeb, icam, iframe, iexit>>

\* run_opencv, lines 143-160: show the frame, then act on the key
InterOpencvKey ==
    /\ script = "inter"
    /\ ipc = "o_check"
    /\ iframe # None
    /\ \E k \in WaitKeys :
          /\ k = "s" => saved_count < MaxSaved
          /\ ipc' = IF k = "q" THEN "o_quit" ELSE "o_capture"
          /\ compare' = IF k = "c" THEN ~compare ELSE compare
          /\ saved_count' = IF k = "s" THEN saved_count + 1 ELSE saved_count
    /\ UNCHANGED <<script, vVerdict, vBgr, vRobot, vDiag, vWeb, icam, iframe, manual_mode,
                   gains_idx, iexit>>

\* picam2.stop() / cap.release(); cv2.destroyAllWindows(); the script ends
InterQuit ==
    /\ script = "inter"
    /\ ipc \in {"p_quit", "o_quit"}
    /\ icam' = IF ipc = "p_quit" THEN "stopped" ELSE "released"
    /\ ipc' = "exited"
    /\ iexit' = <<0>>
    /\ UNCHANGED <<script, vVerdict, vBgr, vRobot, vDiag, vWeb, iframe, compare,
                   saved_count, manual_mode, gains_idx>>

InterNext ==
    \/ InterMain \/ InterCapture \/ InterSkip \/ InterPicamKey \/ InterOpencvKey
    \/ InterQuit

-----------------------------------------------------------------------------
(* display-cam/app.py: module start-up and the routes *)

\* the paths a client asks for in the model
Paths == {"/", "/stream", "/snapshot", "/healthz", "/lara", "/other"}

WebInit ==
    /\ wpc = "camera"
    /\ routes = {}
    /\ static_exists \in BOOLEAN
    /\ wreply = << >>
    /\ nframes = 0
    /\ gpc = "none"
    /\ gframe = 0
    /\ emitted = << >>
    /\ client = "none"

WebIdle ==
    /\ wpc = "none"
    /\ routes = {}
    /\ static_exists = FALSE
    /\ wreply = << >>
    /\ nframes = 0
    /\ gpc = "none"
    /\ gframe = 0
    /\ emitted = << >>
    /\ client = "none"

\* lines 15-21: the camera is created, configured and started
WebCamera ==
    /\ script = "web"
    /\ wpc = "camera"
    /\ wpc' = "autofocus"
    /\ UNCHANGED <<script, vVerdict, vBgr, vRobot, vDiag, vInter, routes, static_exists,
                   wreply, vGen>>

\* lines 24-32: the try block: the autofocus calls succeed, or one raises (the
\* import of libcamera included) and the except block runs
WebAutofocus ==
    /\ script = "web"
    /\ wpc = "autofocus"
    /\ \E raised \in BOOLEAN : wpc' = IF raised THEN "except" ELSE "routes"
    /\ UNCHANGED <<script, vVerdict, vBgr, vRobot, vDiag, vInter, routes, static_exists,
                   wreply, vGen>>

\* lines 33-42, all inside `except Exception:`: the static image is written
\* when it is missing, and /lara is registered
WebExcept ==
    /\ script = "web"
    /\ wpc = "except"
    /\ static_exists' = TRUE
    /\ routes' = routes \cup {"/lara"}
    /\ wpc' = "routes"
    /\ UNCHANGED <<script, vVerdict, vBgr, vRobot, vDiag, vInter, wreply, vGen>>

\* lines 95-126: the four @app.route definitions at module level
WebRoutes ==
    /\ script = "web"
    /\ wpc = "routes"
    /\ routes' = routes \cup {"/", "/stream", "/snapshot", "/healthz"}
    /\ wpc' = "run"
    /\ UNCHANGED <<script, vVerdict, vBgr, vRobot, vDiag, vInter, static_exists, wreply,
                   vGen>>

\* lines 128-130: app.run(...)
WebRun ==
    /\ script = "web"
    /\ wpc = "run"
    /\ wpc' = "serving"
    /\ UNCHANGED <<script, vVerdict, vBgr, vRobot, vDiag, vInter, routes, static_exists,
                   wreply, vGen>>

\* one request: a registered rule answers, any other path is 404; snapshot()
\* takes a frame of its own from the camera
WebRequest ==
    /\ script = "web"
    /\ wpc = "serving"
    /\ \E path \in Paths :
          /\ (path = "/snapshot" /\ path \in routes) => nframes < MaxFrames
          /\ wreply' = <<path, IF path \in routes THEN "200" ELSE "404">>
          /\ nframes' = IF path = "/snapshot" /\ path \in routes
                        THEN nframes + 1 ELSE nframes
    /\ UNCHANGED <<script, vVerdict, vBgr, vRobot, vDiag, vInter, wpc, routes,
                   static_exists, gpc, gframe, emitted, client>>

\* cv2.cvtColor(frame, cv2.COLOR_RGB2BGR)
cvtColor(f) == <<"bgr", f>>

\* the bytes cv2.imencode(".jpg", bgr, ...) gives when it succeeds
imencode(bgr) == <<"jpg", bgr>>

\* b"--frame\r\n" b"Content-Type: image/jpeg\r\n\r\n" + jpg.tobytes() + b"\r\n"
Part(jpg) == <<"--frame", "Content-Type: image/jpeg", jpg>>

\* the frame a part carries
FrameOf(part) == part[3][2][2]

\* stream(): Response(mjpeg_generator(), ...): the server starts to iterate
\* the generator for the client that asked for /stream
GenStart ==
    /\ script = "web"
    /\ wpc = "serving"
    /\ wreply = <<"/stream", "200">>
    /\ gpc = "none"
    /\ gpc' = "capture"
    /\ client' = "connected"
    /\ UNCHANGED <<script, vVerdict, vBgr, vRobot, vDiag, vInter, wpc, routes,
                   static_exists, wreply, nframes, gframe, emitted>>

\* frame = picam2.capture_array()
GenCapture ==
    /\ script = "web"
    /\ gpc = "capture"
    /\ nframes < MaxFrames
    /\ nframes' = nframes + 1
    /\ gframe' = nframes + 1
    /\ gpc' = "encode"
    /\ UNCHANGED <<script, vVerdict, vBgr, vRobot, vDiag, vInter, wpc, routes,
                   static_exists, wreply, emitted, client>>

\* a failed encoding ends the generator
GenEncode_ReturnOnFail ==
    /\ script = "web"
    /\ gpc = "encode"
    /\ \E ok \in BOOLEAN :
          IF ok
          THEN /\ emitted' = Append(emitted, Part(imencode(cvtColor(gframe))))
               /\ gpc' = "yield"
          ELSE /\ gpc' = "closed"
               /\ UNCHANGED emitted
    /\ UNCHANGED <<script, vVerdict, vBgr, vRobot, vDiag, vInter, wpc, routes,
                   static_exists, wreply, nframes, gframe, client>>

\* bgr = cvtColor(frame); ok, jpg = imencode(...); if not ok: continue;
\* yield the part
GenEncode ==
    /\ script = "web"
    /\ gpc = "encode"
    /\ \E ok \in BOOLEAN :
          IF ok
          THEN /\ emitted' = Append(emitted, Part(imencode(cvtColor(gframe))))
               /\ gpc' = "yield"
          ELSE /\ gpc' = "capture"
               /\ UNCHANGED emitted
    /\ UNCHANGED <<script, vVerdict, vBgr, vRobot, vDiag, vInter, wpc, routes,
                   static_exists, wreply, nframes, gframe, client>>

\* the server has sent the part and asks for the next: the loop goes on
GenResume ==
    /\ script = "web"
    /\ gpc = "yield"
    /\ client = "connected"
    /\ gpc' = "capture"
    /\ UNCHANGED <<script, vVerdict, vBgr, vRobot, vDiag, vInter, wpc, routes,
                   static_exists, wreply, nframes, gframe, emitted, client>>

\* the client disconnects
ClientGone ==
    /\ script = "web"
    /\ client = "connected"
    /\ client' = "gone"
    /\ UNCHANGED <<script, vVerdict, vBgr, vRobot, vDiag, vInter, wpc, routes,
                   static_exists, wreply, nframes, gpc, gframe, emitted>>

\* the server closes the generator of a client that is gone: GeneratorExit is
\* raised at the yield
GenClose ==
    /\ script = "web"
    /\ gpc = "yield"
    /\ client = "gone"
    /\ gpc' = "closed"
    /\ UNCHANGED <<script, vVerdict, vBgr, vRobot, vDiag, vInter, wpc, routes,
                   static_exists, wreply, nframes, gframe, emitted, client>>

WebNext ==
    \/ WebCamera \/ WebAutofocus \/ WebExcept \/ WebRoutes \/ WebRun \/ WebRequest
    \/ GenStart \/ GenCapture \/ GenEncode \/ GenResume \/ ClientGone \/ GenClose

-----------------------------------------------------------------------------
Scripts == {"verdict", "bgr", "robot", "diag", "inter", "web"}

Init ==
    /\ script \in Scripts
    /\ IF script = "verdict" THEN VerdictInit ELSE VerdictIdle
    /\ IF script = "bgr" THEN BgrInit ELSE BgrIdle
    /\ IF script = "robot" THEN RobotInit ELSE RobotIdle
    /\ IF script = "diag" THEN DiagInit ELSE DiagIdle
    /\ IF script = "inter" THEN InterInit ELSE InterIdle
    /\ IF script = "web" THEN WebInit ELSE WebIdle

Next ==
    \/ CallVerdict
    \/ CallToBgr
    \/ RobotNext
    \/ DiagNext
    \/ InterNext
    \/ WebNext

Spec == Init /\ [][Next]_vars

(* treasure_hunt.py alone, with the scheduling the code relies on: a thread
   that can take a step eventually takes it, and a thread waiting for the
   lock gets it when the lock keeps being released (the other side sleeps
   after every release).  readchar.readkey() waits for the user: no fairness
   on ThreadReadKey. *)
RobotFairness ==
    /\ SF_vars(ThreadAcquire) /\ WF_vars(ThreadWrite) /\ WF_vars(ThreadCheck)
    /\ WF_vars(ThreadRelease) /\ WF_vars(ThreadEnd) /\ WF_vars(ThreadSleep)
    /\ WF_vars(MainStart) /\ WF_vars(MainGameStart) /\ WF_vars(MainDetect)
    /\ SF_vars(MainAcquire) /\ WF_vars(MainDispatch) /\ WF_vars(MainRelease)
    /\ WF_vars(MainAct) /\ WF_vars(MainSleep) /\ WF_vars(MainJoin)
    /\ WF_vars(MainQuit)

RobotStart == Init /\ script = "robot"

RobotSpec ==
    /\ RobotStart
    /\ [][RobotNext]_vars
    /\ RobotFairness

-----------------------------------------------------------------------------
(* C1: for every triple of non-negative channel means with b > 1.4 * max(r, g),
   verdict_from_stats returns exactly the blue-dominant message and nothing
   else. *)
C1_BlueOnly ==
    (script = "verdict" /\ verdict # None /\ 10 * means[3] > 14 * Max(means[1], means[2]))
        => verdict = BlueMsg

C1_Witness ==
    /\ script = "verdict"
    /\ verdict = BlueMsg
    /\ means[1] > 0
    /\ 10 * means[3] > 14 * Max(means[1], means[2])

(* C2: verdict_from_stats returns exactly one of the three canned messages,
   never a concatenation of two; the blue and the red condition never hold
   together; the balanced message is returned exactly when neither holds, so
   r = g = b gives the balanced message. *)
C2_ExactlyOne ==
    (script = "verdict" /\ verdict # None) =>
        LET r == means[1]
            g == means[2]
            b == means[3]
            blue == 10 * b > 14 * Max(r, g)
            red  == 10 * r > 14 * Max(g, b)
        IN  /\ verdict \in {BlueMsg, RedMsg, BalancedMsg}
            /\ ~(blue /\ red)
            /\ (verdict = BalancedMsg) <=> (~blue /\ ~red)
            /\ (verdict = BlueMsg) <=> blue
            /\ (verdict = RedMsg) <=> red
            /\ (r = g /\ g = b) => verdict = BalancedMsg

C2_Witness ==
    /\ script = "verdict"
    /\ verdict = BalancedMsg
    /\ means[1] = means[2] /\ means[2] = means[3] /\ means[1] > 0

(* C3: to_bgr is its own inverse: applied twice it returns the original
   array; applied once it exchanges channel 0 and channel 2 of every pixel and
   keeps channel 1 and the pixel positions. *)
C3_Involution ==
    script = "bgr" =>
        /\ ncalls = 2 => img = img0
        /\ ncalls = 1 =>
            /\ DOMAIN img = DOMAIN img0
            /\ \A i \in DOMAIN img0 :
                /\ DOMAIN img[i] = DOMAIN img0[i]
                /\ \A j \in DOMAIN img0[i] :
                    /\ img[i][j][1] = img0[i][j][3]
                    /\ img[i][j][2] = img0[i][j][2]
                    /\ img[i][j][3] = img0[i][j][1]

C3_Witness ==
    /\ script = "bgr"
    /\ ncalls = 2
    /\ img = img0
    /\ \E i \in DOMAIN img0 : \E j \in DOMAIN img0[i] : img0[i][j][1] # img0[i][j][3]
    /\ \E i \in DOMAIN img0 : Len(img0[i]) = 2 /\ img0[i][1] # img0[i][2]

(* C4: whenever the main loop of treasure_hunt.py reads a non-empty value of
   `key` under the lock, it has reset `key` to None before it releases the
   lock, whatever the value (movement key, 'space', 'quit', any other key).
   This is the claim as stated; the code does not satisfy it. *)
C4_AlwaysCleared ==
    (script = "robot" /\ mpc \in {"release", "join", "close"} /\ mseen # None)
        => key = None

(* C4, amended: when the locked read finds w, s, a, d or 'space', `key` is
   None again before the lock is released; when it finds 'quit' or any other
   key, `key` still holds that value when the lock is released. *)
C4_ConsumedCleared ==
    (script = "robot" /\ mpc \in {"release", "join", "close"}) =>
        /\ lock = "main"
        /\ mseen \in {"w", "s", "a", "d", "space"} => key = None
        /\ mseen \notin {"w", "s", "a", "d", "space"} => key = mseen

C4_Witness ==
    /\ script = "robot"
    /\ mpc = "release"
    /\ lock = "main"
    /\ mseen = "space"
    /\ key = None

(* C5: every read and write of `key` happens with the lock held by the
   process that reads or writes, under every interleaving, and the value the
   main loop reads is None, 'quit', 'space' or a lower-cased key, never the
   raw space character or the raw Ctrl-C character. *)
C5_LockedAccess ==
    script = "robot" =>
        /\ tpc \in {"write", "check", "release", "release_break"} => lock = "thread"
        /\ mpc \in {"dispatch", "release", "join", "close"} => lock = "main"
        /\ mseen \notin {SPACE, CTRL_C}
        /\ mseen \in {"unread", None, "quit", "space"}
                        \cup {Lower(k) : k \in Keys \ {SPACE, CTRL_C}}

C5_Witness ==
    /\ script = "robot"
    /\ mpc = "release"
    /\ mseen = "space"
    /\ lock = "main"
    /\ tpc = "acquire"
    /\ key_temp = CTRL_C

(* C6: in every iteration of the control loop at most one robot action is
   executed, only when the locked read of that iteration found w, s, a or d,
   and it is the action key_dict gives for that key; the pending action is
   None again once it was executed, so it is not repeated without a new key. *)
C6_OneActionPerIteration ==
    script = "robot" =>
        /\ Len(done) <= 1
        /\ Len(done) = 1 =>
              /\ mseen \in {"w", "s", "a", "d"}
              /\ done[1] = key_dict[mseen]
        /\ mpc \in {"sleep", "detect", "acquire", "dispatch"} => action = None
        /\ action # None => mseen \in {"w", "s", "a", "d"} /\ action = key_dict[mseen]

C6_Witness ==
    /\ script = "robot"
    /\ mpc = "sleep"
    /\ mseen = "d"
    /\ done = <<"turn_right">>
    /\ action = None

(* C7: in every script, whenever a frame capture returns nothing the process
   prints a diagnostic and terminates with a non-zero exit status, without
   retrying and without going on with the remaining work: the auto capture
   and every sweep capture of the headless diagnostic, and the per-frame
   captures of the interactive loops.  This is the claim as stated; the code
   does not satisfy it. *)
C7_FailureTerminates ==
    [][ /\ (script = "diag" /\ dpc \in {"auto_check", "sweep_check"} /\ rgb = None
                /\ dpc' # dpc)
            => (dpc' = "exited" /\ exit_status' = <<1>>)
        /\ (script = "inter" /\ ipc \in {"p_check", "o_check"} /\ iframe = None
                /\ ipc' # ipc)
            => (ipc' = "exited" /\ iexit' = <<1>>)
      ]_vars

(* C7, amended: in the headless diagnostic a failed auto capture prints an
   error and ends the process with exit status 1; a failed sweep capture
   prints a warning naming the gains, records no file and no result for them
   and goes on with the next gains (after the last, with the summary), the
   process still running; in the interactive loops a failed capture is
   skipped and the loop captures again, the process still running. *)
C7_AbortOrSkip ==
    [][ /\ (script = "diag" /\ dpc = "auto_check" /\ rgb = None /\ dpc' # dpc)
            => /\ dpc' = "exited"
               /\ exit_status' = <<1>>
               /\ <<"error">> \in dout'
        /\ (script = "diag" /\ dpc = "sweep_check" /\ rgb = None /\ dpc' # dpc)
            => /\ dpc' = IF gi < Len(gains_list) THEN "sweep_call" ELSE "summary"
               /\ gi < Len(gains_list) => gi' = gi + 1
               /\ exit_status' = << >>
               /\ <<"warn", gains_list[gi]>> \in dout'
               /\ files' = files
               /\ sweep_results' = sweep_results
               /\ written' = written
        /\ (script = "inter" /\ ipc \in {"p_check", "o_check"} /\ iframe = None
                /\ ipc' # ipc)
            => /\ ipc' = IF ipc = "p_check" THEN "p_capture" ELSE "o_capture"
               /\ iexit' = << >>
               /\ UNCHANGED <<icam, compare, saved_count, manual_mode, gains_idx>>
      ]_vars

C7_Witness ==
    /\ script = "diag"
    /\ dpc = "exited"
    /\ exit_status = <<0>>
    /\ dout = {<<"warn", gains_list[1]>>}
    /\ Len(files) = Len(gains_list)
    /\ Len(manual_sweep[1]) = Len(gains_list) - 1

(* C8: once the web viewer has started, the routes /, /stream, /snapshot,
   /healthz and /lara are all registered, whether the autofocus calls
   succeeded or raised.  The code registers /lara only when they raised. *)
C8_AllRoutes ==
    (script = "web" /\ wpc = "serving")
        => {"/", "/stream", "/snapshot", "/healthz", "/lara"} \subseteq routes

(* C9: in the headless diagnostic at most one camera handle is open at any
   point, and every handle a capture call opened is closed or released when
   that call has returned, after a failed capture as after a good one.
   capture_picamera2 stops its handle and never closes it. *)
C9_OneHandle ==
    script = "diag" =>
        /\ Cardinality(OpenHandles) <= 1
        /\ cpc = "idle" => OpenHandles = {}

(* C10: every name in the summary's "files" list ends with ".png"; the list
   holds the auto capture's name and then one name per successful sweep
   capture, in sweep order, each equal to the "file" field of the matching
   manual_sweep entry.  The sweep names end with "ppng". *)
C10_PngFiles ==
    (script = "diag" /\ Len(files) > 0) =>
        /\ \A i \in DOMAIN files : EndsWith(files[i], ".png")
        /\ files[1] = "auto_bgr.png"
        /\ Len(files) = 1 + Len(sweep_results)
        /\ \A i \in DOMAIN sweep_results : files[i + 1] = sweep_results[i].file
        /\ \A i \in DOMAIN sweep_results : \A j \in DOMAIN sweep_results :
              i < j => \E a, b \in DOMAIN gains_list :
                          /\ a < b
                          /\ gains_list[a] = sweep_results[i].gains
                          /\ gains_list[b] = sweep_results[j].gains

\* once the key thread has stored 'quit' it only ends: it does not take the
\* lock and does not write `key`
ThreadOnlyEnds ==
    tpc \in {"release_break", "ending", "done"} =>
        /\ tpc' \in {"release_break", "ending", "done"}
        /\ lock' = "thread" => lock = "thread"
        /\ key' = key

\* once the main loop has read 'quit' it executes no action and only quits
MainOnlyQuits ==
    mseen = "quit" =>
        /\ mseen' = "quit"
        /\ done' = << >>
        /\ action' = None
        /\ mpc' \in {"join", "close", "exited"}

(* C11: quit in the robot control loop always completes.  Once the key thread
   has read Ctrl-C it stores 'quit', never takes the lock or writes `key`
   again and ends; 'quit' is never overwritten or cleared; under fair
   scheduling the main loop then reads 'quit', joins the thread while it
   holds the lock, closes the camera and leaves the loop; no robot action is
   executed once the main loop has read 'quit'. *)
C11_QuitCompletes ==
    /\ [][key = "quit" => key' = "quit"]_vars
    /\ [][ThreadOnlyEnds]_vars
    /\ [][MainOnlyQuits]_vars
    /\ [](mpc \in {"join", "close"} => (lock = "main" /\ key = "quit"))
    /\ [](mpc = "exited" => (tpc = "done" /\ ~cam_open /\ lock = "free"))
    /\ (tpc = "acquire" /\ key_temp = CTRL_C) ~> (key = "quit" /\ tpc = "done")
    /\ (key = "quit") ~> (mpc = "exited")

C11_Witness ==
    /\ script = "robot"
    /\ mpc = "exited"
    /\ mseen = "quit"
    /\ key = "quit"
    /\ tpc = "done"
    /\ lock = "free"
    /\ ~cam_open

(* C12: the MJPEG generator emits parts only for frames it has just captured:
   each part carries the encoding of the frame captured in the same iteration;
   a frame whose encoding fails yields nothing and the next frame is
   captured; no frame is emitted twice, none is emitted after a later one,
   and the generator never ends by itself (only a client that is gone ends
   it). *)
C12_FreshFrames ==
    script = "web" =>
        /\ \A i \in DOMAIN emitted :
              /\ emitted[i] = Part(imencode(cvtColor(FrameOf(emitted[i]))))
              /\ FrameOf(emitted[i]) \in 1..nframes
        /\ \A i \in DOMAIN emitted : \A j \in DOMAIN emitted :
              i < j => FrameOf(emitted[i]) < FrameOf(emitted[j])
        /\ gpc = "yield" =>
              /\ Len(emitted) > 0
              /\ FrameOf(emitted[Len(emitted)]) = gframe
        /\ gpc \in {"capture", "encode"} =>
              \A i \in DOMAIN emitted :
                  FrameOf(emitted[i]) < gframe
                      \/ (gpc = "capture" /\ FrameOf(emitted[i]) = gframe)
        /\ gframe <= nframes
        /\ gpc = "closed" => client = "gone"

C12_Witness ==
    /\ script = "web"
    /\ wreply = <<"/stream", "200">>
    /\ gpc = "yield"
    /\ client = "connected"
    /\ Len(emitted) = 2
    /\ FrameOf(emitted[1]) = 1
    /\ FrameOf(emitted[2]) = 3

=============================================================================
